---------------------------- MODULE Spec2Model ----------------------------
(***************************************************************************)
(* Devprod: the authenticated request layer (src/src/roblox.ts) and the    *)
(* reconciliation engine (src/src/devprod.ts).                             *)
(*                                                                         *)
(* JavaScript values are tagged tuples, so that values of different types  *)
(* can be compared: <<"undefined">>, <<"number", n>>, <<"string", s>>,     *)
(* <<"boolean", b>>.  An object reference to a catalogue entry is the pair *)
(* <<collection, index>>.                                                  *)
(***************************************************************************)
EXTENDS Integers, Sequences, FiniteSets, TLC

VARIABLES
    lastToken,                \* roblox.ts:31, the module-level session token
    pc,                       \* where robloxRequest is: "idle", "await1", "await2"
    reqOptions,               \* the options object robloxRequest was given (it mutates it)
    resolveWithFullResponse,  \* roblox.ts:40, the caller's setting, captured
    wire,                     \* the attempts issued for the current call, as sent
    settled,                  \* how the network settled each attempt of the current call
    outcome,                  \* what the caller of robloxRequest observes
    lastCarried,              \* history: the token of the latest response that carried one
    config,                   \* devprod.ts IConfig: products and gamepasses
    options,                  \* devprod.ts IOptions: create, update, updateAll
    actions,                  \* the object checkEntries returned last
    phase,                    \* "loaded", and "checked" once checkEntries has returned
    previous,                 \* history: the state the engine was last called in
    result,                   \* what hashEntries or checkHashEntries returned last
    rpc,                      \* where updateEntries is: "idle", "add", "adding", "update", ...
    cursor,                   \* the index of the for-of loop updateEntries is in
    report,                   \* addSuccess, addFailed, updateSuccess, updateFailed
    calls,                    \* history: the adapter calls made, in the order made
    cmdOptions,               \* main.ts:68, the command line: preview and hash
    mpc,                      \* where main is: "start", "report", "save", "done"
    file                      \* the config file: what main has written to it, if anything

sendVars == <<lastToken, pc, reqOptions, resolveWithFullResponse, wire, settled,
              outcome, lastCarried>>
engineVars == <<config, options, actions, phase, previous>>
runVars == <<result, rpc, cursor, report, calls, cmdOptions, mpc, file>>
vars == <<lastToken, pc, reqOptions, resolveWithFullResponse, wire, settled,
          outcome, lastCarried, config, options, actions, phase, previous,
          result, rpc, cursor, report, calls, cmdOptions, mpc, file>>

-----------------------------------------------------------------------------
(* Bounds of the model *)

NumTokens == 2
NumBodies == 1
MaxEntries == 2

-----------------------------------------------------------------------------
(* JavaScript values *)

Undefined == <<"undefined">>
Null == <<"null">>
Num(n) == <<"number", n>>
Str(s) == <<"string", s>>
Bool(b) == <<"boolean", b>>

\* if (v) ... : undefined, null, "", 0 and false are falsy
Truthy(v) == v \notin {Undefined, Null, Str(""), Num(0), Bool(FALSE)}

\* v === undefined || v === null
IsNullish(v) == v = Undefined \/ v = Null

-----------------------------------------------------------------------------
(* The network, as request-promise shows it to robloxRequest *)

StatusForbidden == 403
\* request-promise fulfils on a 2xx status and rejects on any other
SuccessCodes == {200}
FailureCodes == {StatusForbidden, 500}

Tokens == {Str(ToString(i)) : i \in 1..NumTokens}
\* what a response may hold in its x-csrf-token header
HeaderVals == {Undefined, Str("")} \cup Tokens
Bodies == {Str("body" \o ToString(i)) : i \in 1..NumBodies}
StatusMessages == {"XSRF Token Validation Failed", "Token Validation Failed", "Forbidden"}

\* a response of the server: error.response, or response
Responses(codes, messages) ==
    [statusCode : {Num(c) : c \in codes}, statusMessage : {Str(m) : m \in messages},
     token : HeaderVals, body : Bodies]

NoResponse == [statusCode |-> Undefined, statusMessage |-> Undefined,
               token |-> Undefined, body |-> Undefined]

\* How one attempt can settle: fulfilled with a 2xx response, rejected with a
\* StatusCodeError that holds the response, or rejected with a RequestError
\* that holds none.
Fulfilled == [kind : {"response"}, response : Responses(SuccessCodes, {"OK"})]
StatusCodeErrors ==
    [kind : {"StatusCodeError"},
     response : Responses(FailureCodes, StatusMessages)]
RequestErrors == [kind : {"RequestError"}, response : {NoResponse}]
Rejected == StatusCodeErrors \cup RequestErrors
Settlements == Fulfilled \cup Rejected

\* error.response?.headers["x-csrf-token"], error.response?.statusCode, ...
ErrHeaderToken(error) ==
    IF error.kind = "RequestError" THEN Undefined ELSE error.response.token
ErrStatusCode(error) ==
    IF error.kind = "RequestError" THEN Undefined ELSE error.response.statusCode
ErrStatusMessage(error) ==
    IF error.kind = "RequestError" THEN Undefined ELSE error.response.statusMessage

\* request.default(opts) once the attempt settled as net: request-promise
\* resolves with the whole response when opts.resolveWithFullResponse is truthy
\* and with its body otherwise, and rejects with the error.
RequestDefault(opts, net) ==
    IF net.kind = "response"
    THEN [kind |-> "return",
          value |-> IF Truthy(opts.resolveWithFullResponse)
                    THEN [form |-> "response", content |-> net.response]
                    ELSE [form |-> "body", content |-> net.response.body]]
    ELSE [kind |-> "throw", value |-> net]

-----------------------------------------------------------------------------
(* robloxRequest, roblox.ts:32-65 *)

NoOutcome == [kind |-> "none", value |-> Undefined]
NoOptions == [token |-> Undefined, resolveWithFullResponse |-> Undefined]

\* roblox.ts:44-46 and 55-57: the header, when truthy, replaces lastToken
StoreToken(token, header) == IF Truthy(header) THEN header ELSE token

\* a slip in roblox.ts:58: the status message is not looked at
RetryOnAnyForbidden(error) == ErrStatusCode(error) = Num(StatusForbidden)

\* roblox.ts:58
Retry(error) ==
    /\ ErrStatusCode(error) = Num(StatusForbidden)
    /\ \/ ErrStatusMessage(error) = Str("XSRF Token Validation Failed")
       \/ ErrStatusMessage(error) = Str("Token Validation Failed")

\* roblox.ts:47-52
ReturnValue(full, response) ==
    IF Truthy(full)
    THEN [form |-> "response", content |-> response]
    ELSE [form |-> "body", content |-> response.body]

\* a slip in roblox.ts:54: the caller's setting is not put back
NotRestoredOptions(opts, full) == opts

\* roblox.ts:54: the options as they are when the catch block runs
RestoredOptions(opts, full) == [opts EXCEPT !.resolveWithFullResponse = full]

\* a slip in roblox.ts:60: the retry goes out with the header of the first attempt
StaleRetryOptions(opts, token) == opts

\* roblox.ts:60: the options the retry is sent with
RetryOptions(opts, token) == [opts EXCEPT !.token = token]

\* history: the token of the latest response that carried one
Carried(prev, net) ==
    IF net.kind /= "RequestError" /\ Truthy(net.response.token)
    THEN net.response.token ELSE prev

\* roblox.ts:33-43: the call up to its first await.  The caller's options hold
\* resolveWithFullResponse = full.
Call(full) ==
    /\ pc = "idle"
    /\ resolveWithFullResponse' = full
    /\ reqOptions' = [token |-> lastToken, resolveWithFullResponse |-> Bool(TRUE)]
    /\ wire' = <<reqOptions'>>
    /\ settled' = <<>>
    /\ outcome' = NoOutcome
    /\ pc' = "await1"
    /\ UNCHANGED <<lastToken, lastCarried>>

\* roblox.ts:43-52: the first attempt is fulfilled
FirstFulfilled(net) ==
    /\ pc = "await1"
    /\ net.kind = "response"
    /\ lastToken' = StoreToken(lastToken, net.response.token)
    /\ reqOptions' = RestoredOptions(reqOptions, resolveWithFullResponse)
    /\ outcome' = [kind |-> "return",
                   value |-> ReturnValue(resolveWithFullResponse, net.response)]
    /\ settled' = Append(settled, net)
    /\ lastCarried' = Carried(lastCarried, net)
    /\ pc' = "idle"
    /\ UNCHANGED <<resolveWithFullResponse, wire>>

\* a slip in roblox.ts:63: a new error is thrown in place of the one caught
FirstRejectedThrowWrapped(net) ==
    /\ pc = "await1"
    /\ net.kind /= "response"
    /\ ~Retry(net)
    /\ lastToken' = StoreToken(lastToken, ErrHeaderToken(net))
    /\ reqOptions' = RestoredOptions(reqOptions, resolveWithFullResponse)
    /\ outcome' = [kind |-> "throw",
                   value |-> [kind |-> "RequestError", response |-> NoResponse]]
    /\ settled' = Append(settled, net)
    /\ lastCarried' = Carried(lastCarried, net)
    /\ pc' = "idle"
    /\ UNCHANGED <<resolveWithFullResponse, wire>>

\* roblox.ts:53-63, retry false: the first attempt is rejected and the error is
\* thrown on
FirstRejectedThrow(net) ==
    /\ pc = "await1"
    /\ net.kind /= "response"
    /\ ~Retry(net)
    /\ lastToken' = StoreToken(lastToken, ErrHeaderToken(net))
    /\ reqOptions' = RestoredOptions(reqOptions, resolveWithFullResponse)
    /\ outcome' = [kind |-> "throw", value |-> net]
    /\ settled' = Append(settled, net)
    /\ lastCarried' = Carried(lastCarried, net)
    /\ pc' = "idle"
    /\ UNCHANGED <<resolveWithFullResponse, wire>>

\* roblox.ts:53-61, retry true: the first attempt is rejected and the call is
\* sent again
FirstRejectedRetry(net) ==
    /\ pc = "await1"
    /\ net.kind /= "response"
    /\ Retry(net)
    /\ lastToken' = StoreToken(lastToken, ErrHeaderToken(net))
    /\ reqOptions' = RetryOptions(RestoredOptions(reqOptions, resolveWithFullResponse),
                                  lastToken')
    /\ wire' = Append(wire, reqOptions')
    /\ settled' = Append(settled, net)
    /\ lastCarried' = Carried(lastCarried, net)
    /\ pc' = "await2"
    /\ UNCHANGED <<resolveWithFullResponse, outcome>>

\* roblox.ts:61: return await request.default(options), whatever it gives
RetrySettled(net) ==
    /\ pc = "await2"
    /\ outcome' = RequestDefault(reqOptions, net)
    /\ settled' = Append(settled, net)
    /\ lastCarried' = Carried(lastCarried, net)
    /\ pc' = "idle"
    /\ UNCHANGED <<lastToken, reqOptions, resolveWithFullResponse, wire>>


-----------------------------------------------------------------------------
(* The catalogue, devprod.ts:12-26 *)

\* the entry a reference <<collection, index>> points to
Deref(cfg, ref) == cfg[ref[1]][ref[2]]

\* devprod.ts:85-105: object-hash over productId, name, description, price and
\* imageId, each value hashed with its type; sha1 is taken to be free of
\* collisions, so the digest is the tuple of what was hashed.
getHash(product) ==
    <<"sha1", product.productId, product.name, product.description,
      product.price, product.imageId>>

\* devprod.ts:107-112
isEntryOutdated(product) ==
    IF \/ (~Truthy(product.productId) /\ ~Truthy(product.gamepassId))
       \/ product.uploadedHash = Undefined
       \/ product.uploadedHash = Null
    THEN TRUE
    ELSE getHash(product) /= product.uploadedHash

-----------------------------------------------------------------------------
(* checkEntries, devprod.ts:163-216 *)

\* devprod.ts:164-168
EmptyActions == [toAdd |-> <<>>, toNotAdd |-> <<>>, outdated |-> <<>>,
                 toUpdate |-> <<>>, toNotUpdate |-> <<>>]

\* unshift in place of push
PushFront(acc, bucket, ref) == [acc EXCEPT ![bucket] = <<ref>> \o @]

\* toAdd.push(product) and the like
Push(acc, bucket, ref) == [acc EXCEPT ![bucket] = Append(@, ref)]

\* a slip in devprod.ts:180: an outdated entry to update is pushed to
\* toNotUpdate as well
ClassifyExistingTwice(acc, product, ref, opts) ==
    IF isEntryOutdated(product)
    THEN IF opts.update \/ opts.updateAll
         THEN Push(Push(Push(acc, "outdated", ref), "toUpdate", ref), "toNotUpdate", ref)
         ELSE Push(Push(acc, "outdated", ref), "toNotUpdate", ref)
    ELSE IF opts.updateAll
         THEN Push(acc, "toUpdate", ref)
         ELSE Push(acc, "toNotUpdate", ref)

\* a slip in devprod.ts:184: options.update is taken as options.updateAll is
ClassifyExistingAll(acc, product, ref, opts) ==
    IF isEntryOutdated(product)
    THEN IF opts.update \/ opts.updateAll
         THEN Push(Push(acc, "outdated", ref), "toUpdate", ref)
         ELSE Push(Push(acc, "outdated", ref), "toNotUpdate", ref)
    ELSE IF opts.update \/ opts.updateAll
         THEN Push(acc, "toUpdate", ref)
         ELSE Push(acc, "toNotUpdate", ref)

\* devprod.ts:176-189 and 194-207: an entry that has its identifier
ClassifyExisting(acc, product, ref, opts) ==
    IF isEntryOutdated(product)
    THEN IF opts.update \/ opts.updateAll
         THEN Push(Push(acc, "outdated", ref), "toUpdate", ref)
         ELSE Push(Push(acc, "outdated", ref), "toNotUpdate", ref)
    ELSE IF opts.updateAll
         THEN Push(acc, "toUpdate", ref)
         ELSE Push(acc, "toNotUpdate", ref)

\* a slip in devprod.ts:170: the product is not asked for its productId
ClassifyProductAsExisting(acc, product, ref, opts) ==
    ClassifyExisting(acc, product, ref, opts)

\* a slip in devprod.ts:172: a product to create is pushed to toUpdate as well
ClassifyProductBoth(acc, product, ref, opts) ==
    IF IsNullish(product.productId)
    THEN IF opts.create
         THEN Push(Push(acc, "toAdd", ref), "toUpdate", ref)
         ELSE Push(acc, "toNotAdd", ref)
    ELSE ClassifyExisting(acc, product, ref, opts)

\* devprod.ts:170-189: the body of the loop over config.products
ClassifyProduct(acc, product, ref, opts) ==
    IF IsNullish(product.productId)
    THEN IF opts.create
         THEN Push(acc, "toAdd", ref)
         ELSE Push(acc, "toNotAdd", ref)
    ELSE ClassifyExisting(acc, product, ref, opts)

\* devprod.ts:192-193 written like 170-175: a pass without its identifier is
\* pushed to toAdd when options.create is set
ClassifyGamepassCreating(acc, product, ref, opts) ==
    IF IsNullish(product.gamepassId)
    THEN IF opts.create
         THEN Push(acc, "toAdd", ref)
         ELSE Push(acc, "toNotAdd", ref)
    ELSE ClassifyExisting(acc, product, ref, opts)

\* devprod.ts:192-207: the body of the loop over config.gamepasses
ClassifyGamepass(acc, product, ref, opts) ==
    IF IsNullish(product.gamepassId)
    THEN Push(acc, "toNotAdd", ref)
    ELSE ClassifyExisting(acc, product, ref, opts)

\* devprod.ts:169 and 191: the two for-of loops, from index i on
RECURSIVE ProductsLoop(_, _, _, _)
ProductsLoop(cfg, opts, i, acc) ==
    IF i > Len(cfg.products) THEN acc
    ELSE ProductsLoop(cfg, opts, i + 1,
                      ClassifyProduct(acc, cfg.products[i], <<"products", i>>, opts))

RECURSIVE GamepassesLoop(_, _, _, _)
GamepassesLoop(cfg, opts, i, acc) ==
    IF i > Len(cfg.gamepasses) THEN acc
    ELSE GamepassesLoop(cfg, opts, i + 1,
                        ClassifyGamepass(acc, cfg.gamepasses[i], <<"gamepasses", i>>, opts))

checkEntries(cfg, opts) ==
    GamepassesLoop(cfg, opts, 1, ProductsLoop(cfg, opts, 1, EmptyActions))

-----------------------------------------------------------------------------
(* hashEntries, devprod.ts:252-279, and checkHashEntries, devprod.ts:281-308 *)

\* devprod.ts:256-262 and 266-272: the body of either loop of hashEntries, for
\* the entry at index i of the collection, whose identifier is id
HashOne(acc, coll, i, id) ==
    LET product == acc.config[coll][i]
        newHash == getHash(product)
    IN  IF ~IsNullish(id)
        THEN IF newHash /= product.uploadedHash
             THEN [config |-> [acc.config EXCEPT ![coll][i].uploadedHash = newHash],
                   total |-> acc.total + 1,
                   updated |-> acc.updated + 1]
             ELSE [acc EXCEPT !.total = @ + 1]
        ELSE acc

\* devprod.ts:255 and 265: the two for-of loops, from index i on
RECURSIVE HashProductsLoop(_, _)
HashProductsLoop(i, acc) ==
    IF i > Len(acc.config.products) THEN acc
    ELSE HashProductsLoop(i + 1,
            HashOne(acc, "products", i, acc.config.products[i].productId))

RECURSIVE HashGamepassesLoop(_, _)
HashGamepassesLoop(i, acc) ==
    IF i > Len(acc.config.gamepasses) THEN acc
    ELSE HashGamepassesLoop(i + 1,
            HashOne(acc, "gamepasses", i, acc.config.gamepasses[i].gamepassId))

\* hashEntries with the loop over config.gamepasses left out
hashEntriesProductsOnly(cfg) ==
    HashProductsLoop(1, [config |-> cfg, total |-> 0, updated |-> 0])

\* devprod.ts:252-279: the catalogue as hashEntries leaves it, and what it
\* returns
hashEntries(cfg) ==
    HashGamepassesLoop(1, HashProductsLoop(1, [config |-> cfg, total |-> 0, updated |-> 0]))

\* devprod.ts:285-292 and 295-302: the body of either loop of checkHashEntries;
\* both loops test product.productId
CheckHashOne(acc, product, ref) ==
    IF ~IsNullish(product.productId)
    THEN IF getHash(product) /= product.uploadedHash
         THEN [acc EXCEPT !.toUpdate = Append(@, ref)]
         ELSE [acc EXCEPT !.toNotUpdate = Append(@, ref)]
    ELSE acc

\* devprod.ts:284 and 294: the two for-of loops, from index i on
RECURSIVE CheckHashLoop(_, _, _, _)
CheckHashLoop(cfg, coll, i, acc) ==
    IF i > Len(cfg[coll]) THEN acc
    ELSE CheckHashLoop(cfg, coll, i + 1, CheckHashOne(acc, cfg[coll][i], <<coll, i>>))

\* devprod.ts:281-308
checkHashEntries(cfg) ==
    CheckHashLoop(cfg, "gamepasses", 1,
        CheckHashLoop(cfg, "products", 1, [toUpdate |-> <<>>, toNotUpdate |-> <<>>]))

-----------------------------------------------------------------------------
(* The remote operation adapters, roblox.ts:111-228 *)

\* What the three endpoints answer with.  A body is one record whatever the
\* endpoint: an HTML page with or without the DeveloperProductStatus element,
\* its class and its text (the number written in it, or a message); a JSON
\* object with isValid and error, or with errors; or nothing.
Document(type, class, digits, text, valid, hasErrors, errors) ==
    [type |-> type, statusClass |-> class, digits |-> digits, text |-> text,
     isValid |-> valid, hasErrors |-> hasErrors, errors |-> errors]

HtmlStatus(class, digits, text) ==
    Document("html", class, digits, text, Undefined, FALSE, <<>>)
JsonValidity(valid, error) ==
    Document("json", Undefined, Undefined, error, valid, FALSE, <<>>)
JsonErrors(errors) ==
    Document("json", Undefined, Undefined, Undefined, Undefined, TRUE, errors)
JsonObject == Document("json", Undefined, Undefined, Undefined, Undefined, FALSE, <<>>)
EmptyBody == Document("empty", Undefined, Undefined, Undefined, Undefined, FALSE, <<>>)

\* an Error object: its class, code and message (DevprodError, roblox.ts:20-29)
ErrorObject(name, code, message) == [name |-> name, code |-> code, message |-> message]
DevprodError(code, message) == ErrorObject("DevprodError", Num(code), Str(message))

Return(value) == [kind |-> "return", value |-> value]
Throw(error) == [kind |-> "throw", value |-> error]
Pending == [kind |-> "pending", value |-> Undefined]

\* roblox.ts:127-141: the catch block of devprodUpdate
devprodUpdateError(error) ==
    IF error.kind /= "RequestError" /\ error.response.body.hasErrors
    THEN IF error.response.body.errors /= <<>>
         THEN LET errData == error.response.body.errors[1] IN
              IF errData.code = Num(4)
              THEN Throw(ErrorObject("DevprodError", Num(4),
                         Str("Developer Product with the same name already exists")))
              ELSE Throw(ErrorObject("DevprodError",
                         IF IsNullish(errData.code) THEN Num(-1) ELSE errData.code,
                         IF IsNullish(errData.message)
                         THEN Str("Unknown error: missing error message from response")
                         ELSE errData.message))
         ELSE Throw(DevprodError(-1, "Unknown error: missing specific error data from response"))
    ELSE Throw(DevprodError(-1, "Unknown error: " \o error.kind))

\* roblox.ts:123-142: devprodUpdate once robloxRequest has returned or thrown
devprodUpdate(productId, out) ==
    IF out.kind = "return" THEN Return(productId) ELSE devprodUpdateError(out.value)

\* roblox.ts:169: innerText.match(/\d{4,}/) finds a run of four digits or more
MatchesId(digits) == digits /= Undefined /\ digits[2] >= 1000

\* roblox.ts:160-185: devprodAdd once robloxRequest has returned or thrown.
\* statusElement?.getAttribute("class").indexOf(...) is undefined when there is
\* no status element, and undefined !== -1 holds.
devprodAdd(out) ==
    IF out.kind = "throw"
    THEN Throw(DevprodError(-1, "Unknown error: " \o out.value.kind))
    ELSE LET res == out.value.content
             statusElement == res.statusClass /= Undefined
         IN  IF ~statusElement \/ res.statusClass = Str("status-confirm")
             THEN IF ~statusElement
                  THEN Throw(ErrorObject("TypeError", Undefined,
                             Str("Cannot read property 'innerText' of undefined")))
                  ELSE IF MatchesId(res.digits)
                       THEN Return(res.digits)
                       ELSE Throw(DevprodError(-4,
                               "Unknown error: add success without a returned product id"))
             ELSE IF res.statusClass = Str("error-message")
                  THEN IF res.text = Str("Developer Product with the same name already exists")
                       THEN Throw(ErrorObject("DevprodError", Num(4), res.text))
                       ELSE Throw(ErrorObject("DevprodError", Num(-2), res.text))
                  ELSE Throw(DevprodError(-2,
                          "Unknown error: bad response format. Are you logged in? Has the legacy developer products API changed?"))

\* gamepassUpdate written as devprodUpdate is: the result is not looked at
gamepassUpdateByStatus(gamepassId, out) ==
    IF out.kind = "throw"
    THEN Throw(DevprodError(-1, "Unknown error: " \o out.value.kind))
    ELSE Return(gamepassId)

\* roblox.ts:213-227: gamepassUpdate once robloxRequest has returned or thrown
gamepassUpdate(gamepassId, out) ==
    IF out.kind = "throw"
    THEN Throw(DevprodError(-1, "Unknown error: " \o out.value.kind))
    ELSE LET res == out.value.content IN
         IF res.type /= "empty"
         THEN IF Truthy(res.isValid)
              THEN Return(gamepassId)
              ELSE Throw(ErrorObject("DevprodError", Num(-2), res.text))
         ELSE Throw(DevprodError(-2, "Unknown error: missing result"))

\* What the endpoints are taken to answer.  Every response carries the same
\* token; the request layer on its own is run with every header value.
ServedToken == Str("1")
NewId == Num(1234)
AddPages ==
    {HtmlStatus(Str("status-confirm"), NewId, Undefined),
     HtmlStatus(Str("status-confirm"), Num(12), Undefined),
     HtmlStatus(Str("status-confirm"), Undefined, Str("Created")),
     HtmlStatus(Str("error-message"), Undefined,
                Str("Developer Product with the same name already exists")),
     HtmlStatus(Str("error-message"), Undefined, Str("Price is too low")),
     HtmlStatus(Str("status-other"), Undefined, Undefined),
     HtmlStatus(Undefined, Undefined, Undefined)}
UpdateAnswers ==
    {JsonObject,
     JsonValidity(Bool(FALSE), Str("Name is moderated")),
     EmptyBody}
UpdateErrorBodies ==
    {JsonErrors(<<[code |-> Num(4), message |-> Str("Name in use")]>>),
     JsonErrors(<<[code |-> Num(1), message |-> Undefined]>>),
     JsonErrors(<<>>),
     JsonObject}
GamepassAnswers ==
    {JsonValidity(Bool(TRUE), Undefined),
     JsonValidity(Bool(FALSE), Str("Name is moderated")),
     EmptyBody}

EndpointFulfilled(bodies) ==
    [kind : {"response"},
     response : [statusCode : {Num(c) : c \in SuccessCodes}, statusMessage : {Str("OK")},
                 token : {ServedToken}, body : bodies]]
\* a rejection that robloxRequest answers with a retry, the rejections with
\* another status, and the rejection without a response
EndpointRejected(bodies) ==
    [kind : {"StatusCodeError"},
     response : [statusCode : {Num(StatusForbidden)},
                 statusMessage : {Str("XSRF Token Validation Failed")},
                 token : {ServedToken}, body : {EmptyBody}]]
       \cup
    [kind : {"StatusCodeError"},
     response : [statusCode : {Num(c) : c \in FailureCodes \ {StatusForbidden}},
                 statusMessage : {Str("Internal Server Error")},
                 token : {ServedToken}, body : bodies]]
       \cup RequestErrors

\* how an attempt of each adapter's request can settle
EndpointSettlements(adapter) ==
    CASE adapter = "devprodAdd" ->
             EndpointFulfilled(AddPages) \cup EndpointRejected({EmptyBody})
      [] adapter = "devprodUpdate" ->
             EndpointFulfilled(UpdateAnswers) \cup EndpointRejected(UpdateErrorBodies)
      [] adapter = "gamepassUpdate" ->
             EndpointFulfilled(GamepassAnswers) \cup EndpointRejected({EmptyBody})

-----------------------------------------------------------------------------
(* The catalogues and options the engine is run on *)

\* devprod.ts:4-10, as main.ts:174-180 builds it: each flag true or false
OptionSets == [create : BOOLEAN, update : BOOLEAN, updateAll : BOOLEAN]

\* productId / gamepassId as parseConfig lets them through (devprod.ts:61, 71):
\* absent, or a number, 0 among them.  (A JSON null passes too; every test of
\* checkEntries and isEntryOutdated takes null as it takes undefined.)
IdVals == {Undefined, Num(0), Num(1)}

\* uploadedHash as parseConfig lets it through (devprod.ts:66, 76): absent,
\* the hash of the entry as it is, or the hash of the entry before its price
\* was edited
HashStates == {"absent", "fresh", "stale"}

BareEntry(coll, i, id) ==
    [productId |-> IF coll = "products" THEN id ELSE Undefined,
     gamepassId |-> IF coll = "gamepasses" THEN id ELSE Undefined,
     name |-> Str(coll \o ToString(i)),
     description |-> Str(""),
     price |-> Num(75),
     imageId |-> Undefined,
     uploadedHash |-> Undefined]

MkEntry(coll, i, shape) ==
    LET e == BareEntry(coll, i, shape[1]) IN
    [e EXCEPT !.uploadedHash =
        CASE shape[2] = "absent" -> Undefined
          [] shape[2] = "fresh" -> getHash(e)
          [] shape[2] = "stale" -> getHash([e EXCEPT !.price = Num(50)])]

Shapes == IdVals \X HashStates
ShapeSeqs == UNION {[1..n -> Shapes] : n \in 0..MaxEntries}

MkConfig(ps, gs) ==
    [products |-> [i \in 1..Len(ps) |-> MkEntry("products", i, ps[i])],
     gamepasses |-> [i \in 1..Len(gs) |-> MkEntry("gamepasses", i, gs[i])]]

Catalogues ==
    {MkConfig(ps, gs) : <<ps, gs>> \in
        {pg \in ShapeSeqs \X ShapeSeqs : Len(pg[1]) + Len(pg[2]) <= MaxEntries}}

\* every reference into a catalogue, in collection order
Refs(cfg) ==
    [i \in 1..Len(cfg.products) |-> <<"products", i>>]
    \o [i \in 1..Len(cfg.gamepasses) |-> <<"gamepasses", i>>]

\* the identifier that says the entry exists remotely: productId for an entry
\* of config.products, gamepassId for an entry of config.gamepasses
RemoteId(cfg, ref) ==
    IF ref[1] = "products" THEN Deref(cfg, ref).productId
    ELSE Deref(cfg, ref).gamepassId

-----------------------------------------------------------------------------
(* The per-entry operations, devprod.ts:114-161 *)

\* the assignment made to every entry of the collection
SetEveryEntry(cfg, ref, entry) ==
    [cfg EXCEPT ![ref[1]] = [i \in DOMAIN @ |-> [@[i] EXCEPT !.uploadedHash = entry.uploadedHash]]]

\* the catalogue with the entry at ref replaced
SetEntry(cfg, ref, entry) == [cfg EXCEPT ![ref[1]][ref[2]] = entry]

\* devprod.ts:114-127: addProduct once devprodAdd has returned or thrown
addProduct(product, r) ==
    IF r.kind = "return"
    THEN LET created == [product EXCEPT !.productId = r.value] IN
         [created EXCEPT !.uploadedHash = getHash(created)]
    ELSE product

\* devprod.ts:129-144: updateProduct once devprodUpdate has returned or thrown
updateProduct(product, r) ==
    IF r.kind = "return"
    THEN [product EXCEPT !.uploadedHash = getHash(product)]
    ELSE product

\* devprod.ts:146-161: updateGamepass once gamepassUpdate has returned or thrown
updateGamepass(product, r) ==
    IF r.kind = "return"
    THEN [product EXCEPT !.uploadedHash = getHash(product)]
    ELSE product

-----------------------------------------------------------------------------
(* Specifications *)

NoOptionsYet == [create |-> FALSE, update |-> FALSE, updateAll |-> FALSE]
EmptyConfig == [products |-> <<>>, gamepasses |-> <<>>]
NoPrevious == [phase |-> "none", options |-> NoOptionsYet, actions |-> EmptyActions,
               config |-> EmptyConfig, lastToken |-> Undefined]

InitSend ==
    /\ lastToken = Undefined
    /\ pc = "idle"
    /\ reqOptions = NoOptions
    /\ resolveWithFullResponse = Undefined
    /\ wire = <<>>
    /\ settled = <<>>
    /\ outcome = NoOutcome
    /\ lastCarried = Undefined

\* devprod.ts:253-254, 282-283, 220-223: nothing counted, listed or reported yet
NoResult == [total |-> 0, updated |-> 0, toUpdate |-> <<>>, toNotUpdate |-> <<>>]
NoReport == [addSuccess |-> <<>>, addFailed |-> <<>>,
             updateSuccess |-> <<>>, updateFailed |-> <<>>]
NoCmdOptions == [preview |-> FALSE, hash |-> FALSE]
Unwritten == [written |-> FALSE, contents |-> EmptyConfig]

\* main and updateEntries are not running
InitRun ==
    /\ result = NoResult
    /\ rpc = "idle"
    /\ cursor = 0
    /\ report = NoReport
    /\ calls = <<>>
    /\ cmdOptions = NoCmdOptions
    /\ mpc = "off"
    /\ file = Unwritten

InitEngine ==
    /\ config = EmptyConfig
    /\ options = NoOptionsYet
    /\ actions = EmptyActions
    /\ phase = "loaded"
    /\ previous = NoPrevious

\* checkEntries storing the hash of every product it looks at, as hashEntries
\* does (devprod.ts:258-261)
CheckEntriesStoringHash ==
    /\ \E opts \in OptionSets :
          /\ options' = opts
          /\ actions' = checkEntries(config, opts)
    /\ phase' = "checked"
    /\ previous' = [phase |-> phase, options |-> options, actions |-> actions,
                    config |-> config, lastToken |-> lastToken]
    /\ config' = [config EXCEPT !.products =
                      [i \in DOMAIN config.products |->
                          [config.products[i] EXCEPT
                              !.uploadedHash = getHash(config.products[i])]]]
    /\ UNCHANGED sendVars

\* main.ts:197, devprod.ts:219: checkEntries is called with the catalogue and
\* the options; it assigns to nothing but its own result
CheckEntries ==
    /\ \E opts \in OptionSets :
          /\ options' = opts
          /\ actions' = checkEntries(config, opts)
    /\ phase' = "checked"
    /\ previous' = [phase |-> phase, options |-> options, actions |-> actions,
                    config |-> config, lastToken |-> lastToken]
    /\ UNCHANGED config
    /\ UNCHANGED sendVars

\* the state the engine is called in
Snapshot == [phase |-> phase, options |-> options, actions |-> actions,
             config |-> config, lastToken |-> lastToken]

\* main.ts:219: hashEntries is called with the catalogue
HashEntries ==
    /\ config' = hashEntries(config).config
    /\ result' = [NoResult EXCEPT !.total = hashEntries(config).total,
                                  !.updated = hashEntries(config).updated]
    /\ phase' = "hashed"
    /\ previous' = Snapshot
    /\ UNCHANGED <<options, actions>>
    /\ UNCHANGED sendVars

\* main.ts:185: checkHashEntries is called with the catalogue
CheckHashEntries ==
    /\ result' = [NoResult EXCEPT !.toUpdate = checkHashEntries(config).toUpdate,
                                  !.toNotUpdate = checkHashEntries(config).toNotUpdate]
    /\ phase' = "hashchecked"
    /\ previous' = Snapshot
    /\ UNCHANGED <<config, options, actions>>
    /\ UNCHANGED sendVars

\* the request layer on its own: calls of robloxRequest, one after the other
NextSend ==
    \/ \E full \in {Undefined, Bool(FALSE), Bool(TRUE)} :
          Call(full) /\ UNCHANGED <<engineVars, runVars>>
    \/ \E net \in Settlements : FirstFulfilled(net) /\ UNCHANGED <<engineVars, runVars>>
    \/ \E net \in Settlements : FirstRejectedThrow(net) /\ UNCHANGED <<engineVars, runVars>>
    \/ \E net \in Settlements : FirstRejectedRetry(net) /\ UNCHANGED <<engineVars, runVars>>
    \/ \E net \in Settlements : RetrySettled(net) /\ UNCHANGED <<engineVars, runVars>>

\* no catalogue is needed to call robloxRequest
InitRequests ==
    /\ InitSend
    /\ InitEngine
    /\ InitRun

SpecSend == InitRequests /\ [][NextSend]_vars

\* classification on its own: a catalogue as loaded, classified again and again
InitClassify ==
    /\ InitSend
    /\ config \in Catalogues
    /\ options = NoOptionsYet
    /\ actions = EmptyActions
    /\ phase = "loaded"
    /\ previous = NoPrevious
    /\ InitRun

NextClassify == CheckEntries /\ UNCHANGED runVars

SpecClassify == InitClassify /\ [][NextClassify]_vars

\* the two hash operations on their own: a catalogue as loaded, hashed and
\* previewed again and again
InitHash ==
    /\ InitSend
    /\ config \in Catalogues
    /\ options \in {NoOptionsYet, [NoOptionsYet EXCEPT !.update = TRUE]}
    /\ actions = EmptyActions
    /\ phase = "loaded"
    /\ previous = NoPrevious
    /\ InitRun

NextHash ==
    \/ HashEntries /\ UNCHANGED <<rpc, cursor, report, calls, cmdOptions, mpc, file>>
    \/ CheckHashEntries /\ UNCHANGED <<rpc, cursor, report, calls, cmdOptions, mpc, file>>

SpecHash == InitHash /\ [][NextHash]_vars

-----------------------------------------------------------------------------
(* updateEntries, devprod.ts:218-250, and main, main.ts:183-311 *)

\* robloxRequest is over and its locals are gone
CallReturned ==
    /\ pc = "idle"
    /\ reqOptions' = NoOptions
    /\ resolveWithFullResponse' = Undefined
    /\ wire' = <<>>
    /\ settled' = <<>>
    /\ outcome' = NoOutcome
    /\ UNCHANGED <<lastToken, lastCarried, pc>>

\* the adapter call in flight, and what it was made for
LastCall == calls[Len(calls)]
Issue(adapter, ref) ==
    Append(calls, [adapter |-> adapter, ref |-> ref, answer |-> NoOutcome, result |-> Pending])
\* the call is over: what robloxRequest gave the adapter, and what the adapter
\* gave its caller
Settle(r) == [calls EXCEPT ![Len(calls)].answer = outcome, ![Len(calls)].result = r]

\* devprod.ts:219-223: updateEntries classifies the catalogue and starts with
\* four empty lists
UpdateEntriesCall ==
    /\ mpc = "start"
    /\ ~cmdOptions.preview /\ ~cmdOptions.hash
    /\ actions' = checkEntries(config, options)
    /\ phase' = "checked"
    /\ previous' = Snapshot
    /\ report' = NoReport
    /\ rpc' = "add"
    /\ cursor' = 1
    /\ mpc' = "updateEntries"
    /\ UNCHANGED <<config, options, result, calls, cmdOptions, file>>
    /\ UNCHANGED sendVars

\* devprod.ts:224-226, 115-116, roblox.ts:145-160: the next entry of toAdd is
\* handed to addProduct, which calls devprodAdd, which sends its request
AddCall ==
    /\ rpc = "add"
    /\ cursor <= Len(actions.toAdd)
    /\ Call(Undefined)
    /\ calls' = Issue("devprodAdd", actions.toAdd[cursor])
    /\ rpc' = "adding"
    /\ UNCHANGED <<cursor, report, result, cmdOptions, mpc, file>>
    /\ UNCHANGED engineVars

\* devprod.ts:117-126, 227-231: devprodAdd is over; addProduct stores the id
\* and the hash or throws on, and the entry is listed
AddSettle ==
    /\ rpc = "adding"
    /\ CallReturned
    /\ LET ref == actions.toAdd[cursor]
           r == devprodAdd(outcome)
       IN  /\ config' = SetEntry(config, ref, addProduct(Deref(config, ref), r))
           /\ report' = IF r.kind = "return"
                         THEN [report EXCEPT !.addSuccess = Append(@, ref)]
                         ELSE [report EXCEPT !.addFailed =
                                  Append(@, [product |-> ref, error |-> r.value])]
           /\ calls' = Settle(r)
    /\ cursor' = cursor + 1
    /\ rpc' = "add"
    /\ UNCHANGED <<options, actions, phase, previous, result, cmdOptions, mpc, file>>

\* devprod.ts:224, 232: toAdd is exhausted and the updating loop starts
AddLoopEnd ==
    /\ rpc = "add"
    /\ cursor > Len(actions.toAdd)
    /\ rpc' = "update"
    /\ cursor' = 1
    /\ UNCHANGED <<report, calls, result, cmdOptions, mpc, file>>
    /\ UNCHANGED <<engineVars, sendVars>>

\* the typeof check of devprod.ts:130-132 and 147-149 failed
BadId(ref, what) ==
    /\ report' = [report EXCEPT !.updateFailed =
                      Append(@, [product |-> ref,
                                 error |-> ErrorObject("Error", Undefined,
                                     Str("Bad or missing " \o what \o " at runtime"))])]
    /\ cursor' = cursor + 1
    /\ UNCHANGED <<calls, rpc, sendVars>>

\* the typeof check left out
IsAnything(v) == TRUE

\* typeof(v) === "number"
IsNumber(v) == v[1] = "number"

\* devprod.ts:130-134, roblox.ts:111-124: updateProduct is called on the entry
\* at ref, up to its await
UpdateProductStart(ref) ==
    IF IsNumber(Deref(config, ref).productId)
    THEN /\ Call(Undefined)
         /\ calls' = Issue("devprodUpdate", ref)
         /\ rpc' = "updating"
         /\ UNCHANGED <<cursor, report>>
    ELSE BadId(ref, "productId")

\* devprod.ts:147-151, roblox.ts:194-214: updateGamepass is called on the
\* entry at ref, up to its await
UpdateGamepassStart(ref) ==
    IF IsNumber(Deref(config, ref).gamepassId)
    THEN /\ Call(Undefined)
         /\ calls' = Issue("gamepassUpdate", ref)
         /\ rpc' = "updating"
         /\ UNCHANGED <<cursor, report>>
    ELSE BadId(ref, "gamepassId")

\* devprod.ts:234-235: an entry of toUpdate with a truthy productId is handed
\* to updateProduct
UpdateProductCall ==
    /\ rpc = "update"
    /\ cursor <= Len(actions.toUpdate)
    /\ LET ref == actions.toUpdate[cursor] IN
          /\ Truthy(Deref(config, ref).productId)
          /\ UpdateProductStart(ref)
    /\ UNCHANGED <<result, cmdOptions, mpc, file>>
    /\ UNCHANGED engineVars

\* devprod.ts:236-237, 147-151, roblox.ts:194-213: an entry of toUpdate with
\* no truthy productId and a truthy gamepassId is handed to updateGamepass
UpdateGamepassCall ==
    /\ rpc = "update"
    /\ cursor <= Len(actions.toUpdate)
    /\ LET ref == actions.toUpdate[cursor]
           product == Deref(config, ref)
       IN  /\ ~Truthy(product.productId)
           /\ Truthy(product.gamepassId)
           /\ UpdateGamepassStart(ref)
    /\ UNCHANGED <<result, cmdOptions, mpc, file>>
    /\ UNCHANGED engineVars

\* devprod.ts:234-239: an entry of toUpdate with neither id truthy is handed
\* to nothing and listed as updated
UpdateNoCall ==
    /\ rpc = "update"
    /\ cursor <= Len(actions.toUpdate)
    /\ LET ref == actions.toUpdate[cursor]
           product == Deref(config, ref)
       IN  /\ ~Truthy(product.productId)
           /\ ~Truthy(product.gamepassId)
           /\ report' = [report EXCEPT !.updateSuccess = Append(@, ref)]
    /\ cursor' = cursor + 1
    /\ UNCHANGED <<calls, rpc, result, cmdOptions, mpc, file>>
    /\ UNCHANGED <<engineVars, sendVars>>

\* updateProduct and updateGamepass storing the hash whatever the adapter did
UpdatedAnyway(product, r) == [product EXCEPT !.uploadedHash = getHash(product)]

\* devprod.ts:234-237: the entry after the update adapter that was called for
\* it has answered
Updated(product, r) ==
    IF LastCall.adapter = "devprodUpdate"
    THEN updateProduct(product, r)
    ELSE updateGamepass(product, r)

\* devprod.ts:135-143, 152-160, 239-242: the update adapter is over; the hash
\* is stored or the error thrown on, and the entry is listed
UpdateSettle ==
    /\ rpc = "updating"
    /\ CallReturned
    /\ LET ref == LastCall.ref
           product == Deref(config, ref)
           r == IF LastCall.adapter = "devprodUpdate"
                THEN devprodUpdate(product.productId, outcome)
                ELSE gamepassUpdate(product.gamepassId, outcome)
       IN  /\ config' = SetEntry(config, ref, Updated(product, r))
           /\ report' = IF r.kind = "return"
                         THEN [report EXCEPT !.updateSuccess = Append(@, ref)]
                         ELSE [report EXCEPT !.updateFailed =
                                  Append(@, [product |-> ref, error |-> r.value])]
           /\ calls' = Settle(r)
    /\ cursor' = cursor + 1
    /\ rpc' = "update"
    /\ UNCHANGED <<options, actions, phase, previous, result, cmdOptions, mpc, file>>

\* devprod.ts:244-249: toUpdate is exhausted and the four lists are returned
UpdateEntriesReturn ==
    /\ rpc = "update"
    /\ cursor > Len(actions.toUpdate)
    /\ rpc' = "returned"
    /\ mpc' = "report"
    /\ UNCHANGED <<cursor, report, calls, result, cmdOptions, file>>
    /\ UNCHANGED <<engineVars, sendVars>>

\* an attempt of the request in flight settles
Network ==
    /\ rpc \in {"adding", "updating"}
    /\ \E net \in EndpointSettlements(LastCall.adapter) :
       /\ \/ FirstFulfilled(net)
          \/ FirstRejectedThrow(net)
          \/ FirstRejectedRetry(net)
          \/ RetrySettled(net)
       /\ UNCHANGED <<engineVars, runVars>>

\* main.ts:183-195: preview of a hash run
MainPreviewHash ==
    /\ mpc = "start"
    /\ cmdOptions.preview /\ cmdOptions.hash
    /\ CheckHashEntries
    /\ mpc' = "save"
    /\ UNCHANGED <<rpc, cursor, report, calls, cmdOptions, file>>

\* main.ts:196-217: preview of a reconcile run
MainPreviewCheck ==
    /\ mpc = "start"
    /\ cmdOptions.preview /\ ~cmdOptions.hash
    /\ actions' = checkEntries(config, options)
    /\ phase' = "checked"
    /\ previous' = Snapshot
    /\ mpc' = "save"
    /\ UNCHANGED <<config, options, sendVars>>
    /\ UNCHANGED <<result, rpc, cursor, report, calls, cmdOptions, file>>

\* main.ts:218-223: a hash run
MainHash ==
    /\ mpc = "start"
    /\ ~cmdOptions.preview /\ cmdOptions.hash
    /\ HashEntries
    /\ mpc' = "save"
    /\ UNCHANGED <<rpc, cursor, report, calls, cmdOptions, file>>

\* main.ts:262 outside a try block: the TypeError ends main
MainReportUncaught ==
    /\ mpc = "report"
    /\ mpc' = "done"
    /\ UNCHANGED <<result, rpc, cursor, report, calls, cmdOptions, file>>
    /\ UNCHANGED <<engineVars, sendVars>>

\* main.ts:227-286: the lists are printed.  result.verifyFailed, which
\* updateEntries does not set, is read at line 262: the TypeError, like
\* whatever else is thrown on the way, is caught and printed at 283-286, and
\* main goes on to the save.
MainReport ==
    /\ mpc = "report"
    /\ mpc' = "save"
    /\ UNCHANGED <<result, rpc, cursor, report, calls, cmdOptions, file>>
    /\ UNCHANGED <<engineVars, sendVars>>

\* main.ts:289-304: the catalogue is written back
MainSave ==
    /\ mpc = "save"
    /\ ~cmdOptions.preview
    /\ file' = [written |-> TRUE, contents |-> config]
    /\ mpc' = "done"
    /\ UNCHANGED <<result, rpc, cursor, report, calls, cmdOptions>>
    /\ UNCHANGED <<engineVars, sendVars>>

\* main.ts:296-302, 305-310: stringify or writeFile threw; the error and the
\* catalogue are printed and main returns
MainSaveFailed ==
    /\ mpc = "save"
    /\ ~cmdOptions.preview
    /\ mpc' = "failed"
    /\ UNCHANGED <<result, rpc, cursor, report, calls, cmdOptions, file>>
    /\ UNCHANGED <<engineVars, sendVars>>

\* a slip in main.ts:289: the catalogue is written in preview too
MainNoSaveWriting ==
    /\ mpc = "save"
    /\ cmdOptions.preview
    /\ file' = [written |-> TRUE, contents |-> config]
    /\ mpc' = "done"
    /\ UNCHANGED <<result, rpc, cursor, report, calls, cmdOptions>>
    /\ UNCHANGED <<engineVars, sendVars>>

\* main.ts:289: nothing is written in preview
MainNoSave ==
    /\ mpc = "save"
    /\ cmdOptions.preview
    /\ mpc' = "done"
    /\ UNCHANGED <<result, rpc, cursor, report, calls, cmdOptions, file>>
    /\ UNCHANGED <<engineVars, sendVars>>

\* main.ts:75-87, 113-180: the catalogue is read and the options are taken
\* from the command line, which names at least one thing to do
InitMain ==
    /\ InitSend
    /\ config \in Catalogues
    /\ options \in OptionSets
    /\ cmdOptions \in [preview : BOOLEAN, hash : BOOLEAN]
    /\ \/ cmdOptions.preview \/ cmdOptions.hash
       \/ options.create \/ options.update \/ options.updateAll
    /\ actions = EmptyActions
    /\ phase = "loaded"
    /\ previous = NoPrevious
    /\ result = NoResult
    /\ rpc = "idle"
    /\ cursor = 0
    /\ report = NoReport
    /\ calls = <<>>
    /\ mpc = "start"
    /\ file = Unwritten

Next ==
    \/ MainPreviewHash
    \/ MainPreviewCheck
    \/ MainHash
    \/ UpdateEntriesCall
    \/ AddCall
    \/ AddSettle
    \/ AddLoopEnd
    \/ UpdateProductCall
    \/ UpdateGamepassCall
    \/ UpdateNoCall
    \/ UpdateSettle
    \/ UpdateEntriesReturn
    \/ Network
    \/ MainReport
    \/ MainSave
    \/ MainSaveFailed
    \/ MainNoSave

Spec == InitMain /\ [][Next]_vars

-----------------------------------------------------------------------------
(* updateProduct and updateGamepass on their own, devprod.ts:129-161 *)

\* devprod.ts:129: updateProduct is called on an entry of the catalogue
OpUpdateProduct ==
    /\ rpc = "idle"
    /\ cursor = 0
    /\ \E i \in DOMAIN Refs(config) : UpdateProductStart(Refs(config)[i])
    /\ UNCHANGED <<result, cmdOptions, mpc, file>>
    /\ UNCHANGED engineVars

\* devprod.ts:146: updateGamepass is called on an entry of the catalogue
OpUpdateGamepass ==
    /\ rpc = "idle"
    /\ cursor = 0
    /\ \E i \in DOMAIN Refs(config) : UpdateGamepassStart(Refs(config)[i])
    /\ UNCHANGED <<result, cmdOptions, mpc, file>>
    /\ UNCHANGED engineVars

\* a catalogue as loaded and a session that has or has not had a token yet;
\* previous holds what the operation is called with
InitOps ==
    /\ lastToken \in {Undefined, ServedToken}
    /\ lastCarried = lastToken
    /\ pc = "idle"
    /\ reqOptions = NoOptions
    /\ resolveWithFullResponse = Undefined
    /\ wire = <<>>
    /\ settled = <<>>
    /\ outcome = NoOutcome
    /\ config \in Catalogues
    /\ options = NoOptionsYet
    /\ actions = EmptyActions
    /\ phase = "loaded"
    /\ previous = [NoPrevious EXCEPT !.config = config, !.lastToken = lastToken]
    /\ InitRun

NextOps ==
    \/ OpUpdateProduct
    \/ OpUpdateGamepass
    \/ UpdateSettle
    \/ Network

SpecOps == InitOps /\ [][NextOps]_vars

-----------------------------------------------------------------------------
(* Claims about the request layer, checked under SpecSend *)

\* the token-rejected signal as the specification words it: status 403 with
\* one of the two designated status messages
TokenRejectedSignal(net) ==
    /\ net.kind = "StatusCodeError"
    /\ net.response.statusCode = Num(403)
    /\ net.response.statusMessage \in
          {Str("XSRF Token Validation Failed"), Str("Token Validation Failed")}

\* the current call has returned or thrown
CallOver == pc = "idle" /\ Len(settled) >= 1

\* C1: a call of robloxRequest issues at most two attempts; the second is
\* issued if and only if the first failed with the token-rejected signal; when
\* the second has settled, however it settled, the call is over.
C1_AtMostOneRetry ==
    /\ Len(wire) <= 2
    /\ Len(settled) >= 1 => (Len(wire) = 2 <=> TokenRejectedSignal(settled[1]))
    /\ Len(settled) = 2 => pc = "idle"
    /\ Len(settled) <= Len(wire)

\* both attempts were token-rejected and the call is over
C1_Witness ==
    /\ CallOver
    /\ Len(wire) = 2
    /\ Len(settled) = 2
    /\ TokenRejectedSignal(settled[2])

\* C2: when the first attempt is token-rejected and the retry is fulfilled, the
\* caller gets a result and no error, and the result is the whole response if
\* the caller asked for the whole response and the body otherwise, as a
\* first-attempt success gives.
C2_RetrySuccessSameForm ==
    (CallOver /\ Len(settled) = 2 /\ settled[2].kind = "response") =>
        /\ outcome.kind = "return"
        /\ outcome.value =
              IF resolveWithFullResponse = Bool(TRUE)
              THEN [form |-> "response", content |-> settled[2].response]
              ELSE [form |-> "body", content |-> settled[2].response.body]

\* a retry succeeded for a caller that asked for the body only
C2_Witness ==
    /\ CallOver
    /\ Len(settled) = 2
    /\ TokenRejectedSignal(settled[1])
    /\ settled[2].kind = "response"
    /\ resolveWithFullResponse = Undefined
    /\ outcome.kind = "return"

\* C3: a first failure that is no token rejection reaches the caller after
\* exactly one attempt, and a failure of the retry reaches the caller as it is.
C3_FailuresPropagate ==
    /\ (CallOver /\ settled[1] \in Rejected /\ ~TokenRejectedSignal(settled[1])) =>
          /\ Len(wire) = 1
          /\ Len(settled) = 1
          /\ outcome = [kind |-> "throw", value |-> settled[1]]
    /\ (CallOver /\ Len(settled) = 2 /\ settled[2] \in Rejected) =>
          outcome = [kind |-> "throw", value |-> settled[2]]

\* a 403 whose status message is neither phrase was thrown after one attempt
C3_Witness ==
    /\ CallOver
    /\ Len(wire) = 1
    /\ settled[1].kind = "StatusCodeError"
    /\ settled[1].response.statusCode = Num(403)
    /\ settled[1].response.statusMessage = Str("Forbidden")
    /\ outcome.kind = "throw"

\* C4: between calls the session token is the token of the latest response
\* that carried one, whichever attempt that response answered.
C4_TokenIsLatestCarried == pc = "idle" => lastToken = lastCarried

\* C5: an attempt in flight carries the session token as it was when the
\* attempt was issued; the retry carries the token the rejected first response
\* supplied, or the header of the first attempt when it supplied none.
C5_AttemptCarriesCurrentToken ==
    /\ pc = "await1" => wire[1].token = lastToken
    /\ pc = "await2" => wire[2].token = lastToken
    /\ Len(wire) = 2 =>
          wire[2].token = IF Truthy(settled[1].response.token)
                          THEN settled[1].response.token
                          ELSE wire[1].token

\* a retry went out with a fresh token that differs from the one first sent
C5_Witness ==
    /\ Len(wire) = 2
    /\ Truthy(wire[1].token)
    /\ Truthy(settled[1].response.token)
    /\ wire[2].token = settled[1].response.token
    /\ wire[2].token /= wire[1].token

-----------------------------------------------------------------------------
(* Claims about checkEntries, checked under SpecClassify *)

\* how many times a bucket holds the reference
Count(bucket, ref) == Cardinality({i \in DOMAIN bucket : bucket[i] = ref})
In(bucket, ref) == Count(bucket, ref) >= 1

AllRefs == {Refs(config)[i] : i \in DOMAIN Refs(config)}
HasRemoteId(ref) == ~IsNullish(RemoteId(config, ref))
Checked == phase = "checked"

\* C6 as claimed: an entry without a remote identifier, product or pass, is in
\* toAdd when options.create is set and in toNotAdd when it is not.
C6_AsClaimed ==
    Checked => \A ref \in AllRefs : ~HasRemoteId(ref) =>
        IF options.create
        THEN In(actions.toAdd, ref) /\ ~In(actions.toNotAdd, ref)
        ELSE In(actions.toNotAdd, ref) /\ ~In(actions.toAdd, ref)

\* C6: a product without a productId is in toAdd when options.create is set
\* and in toNotAdd when it is not; a pass without a gamepassId is in toNotAdd
\* whatever options.create is.
C6_CreateOnlyProducts ==
    Checked => \A ref \in AllRefs : ~HasRemoteId(ref) =>
        IF options.create /\ ref[1] = "products"
        THEN In(actions.toAdd, ref) /\ ~In(actions.toNotAdd, ref)
        ELSE In(actions.toNotAdd, ref) /\ ~In(actions.toAdd, ref)

\* with options.create set, a product and a pass that both lack their identifier
C6_Witness ==
    /\ Checked
    /\ options.create
    /\ \E p, g \in AllRefs :
          /\ p[1] = "products" /\ g[1] = "gamepasses"
          /\ ~HasRemoteId(p) /\ ~HasRemoteId(g)
          /\ In(actions.toAdd, p)
          /\ In(actions.toNotAdd, g)

\* uploadedHash is absent or differs from the hash of the entry as it is
HashDiffers(ref) ==
    \/ IsNullish(Deref(config, ref).uploadedHash)
    \/ Deref(config, ref).uploadedHash /= getHash(Deref(config, ref))

\* C7: an entry with a remote identifier is in outdated if and only if its
\* uploadedHash is absent or differs from its hash; an outdated entry is in
\* toUpdate when options.update or options.updateAll is set, in toNotUpdate
\* otherwise.
C7_OutdatedIffHashDiffers ==
    Checked => \A ref \in AllRefs : HasRemoteId(ref) =>
        /\ In(actions.outdated, ref) <=> HashDiffers(ref)
        /\ In(actions.outdated, ref) =>
              IF options.update \/ options.updateAll
              THEN In(actions.toUpdate, ref) /\ ~In(actions.toNotUpdate, ref)
              ELSE In(actions.toNotUpdate, ref) /\ ~In(actions.toUpdate, ref)

\* C8: an entry with a remote identifier whose uploadedHash is its hash is in
\* toUpdate and not in outdated when options.updateAll is set, and in
\* toNotUpdate when it is not, whatever options.update is.
C8_ForceUpdate ==
    Checked => \A ref \in AllRefs : (HasRemoteId(ref) /\ ~HashDiffers(ref)) =>
        IF options.updateAll
        THEN In(actions.toUpdate, ref) /\ ~In(actions.outdated, ref)
        ELSE In(actions.toNotUpdate, ref) /\ ~In(actions.toUpdate, ref)

\* C9 as claimed: every entry is held exactly once by the five buckets together.
C9_AsClaimed ==
    Checked => \A ref \in AllRefs :
        Count(actions.toAdd, ref) + Count(actions.toNotAdd, ref)
        + Count(actions.outdated, ref)
        + Count(actions.toUpdate, ref) + Count(actions.toNotUpdate, ref) = 1

\* C9: every entry is held exactly once by the four buckets toAdd, toNotAdd,
\* toUpdate and toNotUpdate together; outdated holds an entry at most once, and
\* only an entry that toUpdate or toNotUpdate holds too.
C9_ExactlyOneActionBucket ==
    Checked => \A ref \in AllRefs :
        /\ Count(actions.toAdd, ref) + Count(actions.toNotAdd, ref)
           + Count(actions.toUpdate, ref) + Count(actions.toNotUpdate, ref) = 1
        /\ Count(actions.outdated, ref) <= 1
        /\ In(actions.outdated, ref) =>
              In(actions.toUpdate, ref) \/ In(actions.toNotUpdate, ref)

\* an entry that is both in outdated and in toUpdate, beside another entry
C9_Witness ==
    /\ Checked
    /\ Cardinality(AllRefs) >= 2
    /\ \E ref \in AllRefs : In(actions.outdated, ref) /\ In(actions.toUpdate, ref)

\* C10: checkEntries leaves the catalogue and the session token as they were,
\* and a second call with the same options returns the same buckets, in the
\* same order.
C10_CheckEntriesPure ==
    Checked =>
        /\ config = previous.config
        /\ lastToken = previous.lastToken
        /\ (previous.phase = "checked" /\ previous.options = options) =>
              actions = previous.actions

\* a second call with the same options, on a catalogue with an outdated entry
C10_Witness ==
    /\ Checked
    /\ previous.phase = "checked"
    /\ previous.options = options
    /\ Len(actions.outdated) >= 1
    /\ Len(actions.toUpdate) >= 1
    /\ actions = previous.actions

-----------------------------------------------------------------------------
(* Claims about hashEntries and checkHashEntries, checked under SpecHash *)

\* the entries are the same but for uploadedHash
SameButHash(e, f) == [e EXCEPT !.uploadedHash = Undefined] = [f EXCEPT !.uploadedHash = Undefined]

\* C18: hashEntries makes no adapter call and sends no request; after it every
\* entry with a remote identifier, product or pass, has its hash as
\* uploadedHash, every entry without one is as it was and no other field of any
\* entry has changed; a second call changes nothing and reports 0 updated.
C18_HashEntries ==
    phase = "hashed" =>
        /\ calls = <<>> /\ pc = "idle" /\ wire = <<>> /\ lastToken = previous.lastToken
        /\ Refs(config) = Refs(previous.config)
        /\ \A ref \in AllRefs :
              /\ HasRemoteId(ref) =>
                    Deref(config, ref).uploadedHash = getHash(Deref(config, ref))
              /\ ~HasRemoteId(ref) => Deref(config, ref) = Deref(previous.config, ref)
              /\ SameButHash(Deref(config, ref), Deref(previous.config, ref))
        /\ previous.phase = "hashed" => (config = previous.config /\ result.updated = 0)

\* a second call in a row, on a catalogue with a pass that has its identifier
\* and a product that has none
C18_Witness ==
    /\ phase = "hashed"
    /\ previous.phase = "hashed"
    /\ result.total >= 1
    /\ \E g, p \in AllRefs : /\ g[1] = "gamepasses" /\ HasRemoteId(g)
                             /\ p[1] = "products" /\ ~HasRemoteId(p)
                             /\ ~IsNullish(Deref(config, p).uploadedHash)

\* the references a list holds
Held(bucket) == {bucket[i] : i \in DOMAIN bucket}

\* C19: checkHashEntries lists as to-update exactly the entries checkEntries
\* records as outdated on the same catalogue, lists every entry with a remote
\* identifier in exactly one of its two lists, and changes no entry.
C19_PreviewMatchesClassify ==
    phase = "hashchecked" =>
        /\ Held(result.toUpdate) = Held(checkEntries(config, options).outdated)
        /\ \A ref \in AllRefs : HasRemoteId(ref) =>
              Count(result.toUpdate, ref) + Count(result.toNotUpdate, ref) = 1
        /\ config = previous.config


-----------------------------------------------------------------------------
(* Claims about updateEntries and main, checked under Spec *)

\* the catalogue as updateEntries, checkEntries, hashEntries or
\* checkHashEntries was handed it
Before(ref) == Deref(previous.config, ref)
HadRemoteId(ref) == ~IsNullish(RemoteId(previous.config, ref))
InUpdateEntries == rpc /= "idle"
Returned == rpc = "returned"

\* the calls made for an entry, the entries of a failed list, and the place of
\* an entry in the catalogue's collections, products first
CallsFor(ref) == {i \in DOMAIN calls : calls[i].ref = ref}
UpdateCallsFor(ref) == {i \in CallsFor(ref) : calls[i].adapter /= "devprodAdd"}
FailedRefs(bucket) == [i \in DOMAIN bucket |-> bucket[i].product]
Pos(ref) == IF ref[1] = "products" THEN ref[2] ELSE Len(config.products) + ref[2]

\* C11: an entry without a remote identifier, whatever its uploadedHash, is in
\* none of outdated, toUpdate and toNotUpdate, is in toNotAdd once and not in
\* toAdd when options.create is not set, and no update adapter is called for it.
C11_NeverSynced ==
    Checked => \A ref \in AllRefs : ~HadRemoteId(ref) =>
        /\ ~In(actions.outdated, ref)
        /\ ~In(actions.toUpdate, ref)
        /\ ~In(actions.toNotUpdate, ref)
        /\ ~options.create =>
              Count(actions.toNotAdd, ref) = 1 /\ ~In(actions.toAdd, ref)
        /\ UpdateCallsFor(ref) = {}

C11_Witness ==
    /\ Returned /\ mpc = "done"
    /\ ~options.create /\ options.update
    /\ \E i \in DOMAIN calls : calls[i].result.kind = "return"
    /\ \E ref \in AllRefs :
          /\ ~HadRemoteId(ref)
          /\ ~IsNullish(Before(ref).uploadedHash)
          /\ In(actions.toNotAdd, ref)

\* C12: an entry in addSuccess or updateSuccess has its hash, taken on the
\* entry as it is after the call, as uploadedHash, and an entry devprodAdd
\* returned an id for has that id as productId.
C12_SuccessStoresHash ==
    InUpdateEntries =>
        /\ \A ref \in Held(report.addSuccess) \cup Held(report.updateSuccess) :
              Deref(config, ref).uploadedHash = getHash(Deref(config, ref))
        /\ \A i \in DOMAIN calls :
              calls[i].adapter = "devprodAdd" /\ calls[i].result.kind = "return" =>
                  Deref(config, calls[i].ref).productId = calls[i].result.value

\* C13: an entry whose adapter call threw is as it was before the call, and
\* is in the failed list of its loop together with the error thrown.
C13_FailureLeavesEntry ==
    InUpdateEntries => \A i \in DOMAIN calls : calls[i].result.kind = "throw" =>
        /\ Deref(config, calls[i].ref) = Before(calls[i].ref)
        /\ [product |-> calls[i].ref, error |-> calls[i].result.value] \in
              Held(IF calls[i].adapter = "devprodAdd"
                   THEN report.addFailed ELSE report.updateFailed)

C13_Witness ==
    /\ Returned
    /\ \E i, j \in DOMAIN calls :
          /\ calls[i].adapter = "devprodUpdate"
          /\ calls[i].result.kind = "throw"
          /\ ~IsNullish(Before(calls[i].ref).uploadedHash)
          /\ i < j
          /\ calls[j].result.kind = "return"

\* C14: when updateEntries returns, every entry of toAdd and of toUpdate has had
\* exactly one adapter call, every other entry none, addSuccess and addFailed
\* hold each entry of toAdd once between them and nothing else, and
\* updateSuccess and updateFailed do the same for toUpdate.
C14_EveryEntryAttemptedOnce ==
    Returned => \A ref \in AllRefs :
        /\ Count(report.addSuccess, ref) + Count(FailedRefs(report.addFailed), ref)
              = Count(actions.toAdd, ref)
        /\ Count(report.updateSuccess, ref) + Count(FailedRefs(report.updateFailed), ref)
              = Count(actions.toUpdate, ref)
        /\ Cardinality(CallsFor(ref))
              = Count(actions.toAdd, ref) + Count(actions.toUpdate, ref)

\* C15: when updateEntries returns, every entry of toUpdate has had exactly one
\* update adapter call, devprodUpdate for an entry of config.products and
\* gamepassUpdate for an entry of config.gamepasses, and an entry in
\* updateSuccess has had such a call return.
C15_OneUpdateAdapterByKind ==
    Returned => \A ref \in Held(actions.toUpdate) :
        /\ Cardinality(UpdateCallsFor(ref)) = 1
        /\ \A i \in UpdateCallsFor(ref) :
              calls[i].adapter =
                  IF ref[1] = "products" THEN "devprodUpdate" ELSE "gamepassUpdate"
        /\ In(report.updateSuccess, ref) =>
              \E i \in UpdateCallsFor(ref) : calls[i].result.kind = "return"

\* only the latest call can be unanswered, and a request is in flight only
\* for it
OneAtATime ==
    /\ \A i \in DOMAIN calls : i < Len(calls) => calls[i].result.kind /= "pending"
    /\ pc /= "idle" => calls /= <<>> /\ LastCall.result.kind = "pending"

\* C16 as claimed: the calls are issued one at a time in the order of the
\* catalogue's collections, whichever adapter each is for.
C16_AsClaimed ==
    /\ OneAtATime
    /\ \A i, j \in DOMAIN calls : i < j => Pos(calls[i].ref) < Pos(calls[j].ref)

\* C16: the calls are issued one at a time; every devprodAdd call is issued
\* before every update call, and the calls of either kind are in the order of
\* the catalogue's collections.
C16_CreatesThenUpdates ==
    /\ OneAtATime
    /\ \A i, j \in DOMAIN calls : i < j =>
          IF calls[i].adapter = "devprodAdd"
          THEN calls[j].adapter = "devprodAdd" => Pos(calls[i].ref) < Pos(calls[j].ref)
          ELSE calls[j].adapter /= "devprodAdd" /\ Pos(calls[i].ref) < Pos(calls[j].ref)

C16_Witness ==
    /\ Returned
    /\ \E i, j \in DOMAIN calls :
          /\ i < j
          /\ calls[i].adapter = "devprodAdd"
          /\ calls[j].adapter = "devprodUpdate"
          /\ Pos(calls[j].ref) < Pos(calls[i].ref)

\* the entry had its hash as uploadedHash when updateEntries was called
WasFresh(ref) ==
    /\ ~IsNullish(Before(ref).uploadedHash)
    /\ Before(ref).uploadedHash = getHash(Before(ref))

\* C17: in updateEntries without options.updateAll, an entry that had a remote
\* identifier and its hash as uploadedHash has no adapter call and is as it
\* was; an entry that had a remote identifier and no uploadedHash is in
\* outdated, and in toUpdate when options.update is set.
C17_OnlyWhatChanged ==
    InUpdateEntries /\ ~options.updateAll => \A ref \in AllRefs : HadRemoteId(ref) =>
        /\ WasFresh(ref) =>
              CallsFor(ref) = {} /\ Deref(config, ref) = Before(ref)
        /\ IsNullish(Before(ref).uploadedHash) =>
              /\ In(actions.outdated, ref)
              /\ options.update => In(actions.toUpdate, ref)

C17_Witness ==
    /\ Returned /\ mpc = "done"
    /\ options.update /\ ~options.updateAll
    /\ \E ref, other \in AllRefs :
          /\ RemoteId(previous.config, ref) = Num(1)
          /\ WasFresh(ref)
          /\ RemoteId(previous.config, other) = Num(1)
          /\ IsNullish(Before(other).uploadedHash)
          /\ \E i \in CallsFor(other) : calls[i].result.kind = "return"

\* C20: a run with preview makes no adapter call, sends no request, leaves
\* every entry as it was read and does not write the file.
C20_PreviewChangesNothing ==
    cmdOptions.preview =>
        /\ calls = <<>>
        /\ pc = "idle" /\ wire = <<>> /\ settled = <<>>
        /\ phase /= "loaded" => config = previous.config
        /\ ~file.written

C20_Witness ==
    /\ cmdOptions.preview /\ ~cmdOptions.hash
    /\ mpc = "done"
    /\ actions.toAdd /= <<>>
    /\ actions.toUpdate /= <<>>

-----------------------------------------------------------------------------
(* Claims about getHash, checked under SpecClassify *)

\* the entry at ref with id as its remote identifier
WithRemoteId(ref, id) ==
    IF ref[1] = "products"
    THEN [Deref(config, ref) EXCEPT !.productId = id]
    ELSE [Deref(config, ref) EXCEPT !.gamepassId = id]

\* C21: an entry, product or pass, given another remote identifier and left as
\* it is otherwise has another hash, and an entry that is not outdated is
\* outdated once it is given another identifier.
C21_HashDependsOnRemoteId ==
    Checked => \A ref \in AllRefs : \A id \in IdVals \cup {NewId} :
        id /= RemoteId(config, ref) =>
            /\ getHash(WithRemoteId(ref, id)) /= getHash(Deref(config, ref))
            /\ (HasRemoteId(ref) /\ ~In(actions.outdated, ref) /\ ~IsNullish(id)) =>
                  isEntryOutdated(WithRemoteId(ref, id))

-----------------------------------------------------------------------------
(* Claims about the adapters, checked under Spec *)

\* what robloxRequest resolved with for call i, and the identifier the update
\* adapter of call i was called with
Fulfilment(i) == calls[i].answer.kind = "return"
BodyOf(i) == calls[i].answer.value.content
IdOf(i) ==
    IF calls[i].adapter = "devprodUpdate"
    THEN Before(calls[i].ref).productId
    ELSE Before(calls[i].ref).gamepassId

\* a page whose status element is missing, or has neither of the two classes
\* devprodAdd looks for
Unrecognized(page) ==
    page.statusClass \notin {Str("status-confirm"), Str("error-message")}

\* C22: devprodAdd, given a page it does not recognize, the page without a
\* status element among them, throws the DevprodError with code -2 that says
\* the response format is bad.
C22_UnknownFormatIsTyped ==
    \A i \in DOMAIN calls :
        (calls[i].adapter = "devprodAdd" /\ Fulfilment(i) /\ Unrecognized(BodyOf(i))) =>
            /\ calls[i].result.kind = "throw"
            /\ calls[i].result.value.name = "DevprodError"
            /\ calls[i].result.value.code = Num(-2)

\* the caller of call i was given the identifier the adapter was called with
ReturnedId(i) ==
    calls[i].result.kind = "return" /\ calls[i].result.value = IdOf(i)
\* the caller of call i was thrown an error with this message
ThrewMessage(i, message) ==
    calls[i].result.kind = "throw" /\ calls[i].result.value.message = message

\* what gamepassUpdate does with a fulfilled request
ByValidityFlag(i) ==
    IF BodyOf(i).type /= "empty"
    THEN IF Truthy(BodyOf(i).isValid)
         THEN ReturnedId(i)
         ELSE ThrewMessage(i, BodyOf(i).text)
    ELSE ThrewMessage(i, Str("Unknown error: missing result"))

-----------------------------------------------------------------------------
(* Claims about updateProduct and updateGamepass, checked under SpecOps *)

\* the operation was called and threw at its typeof check
FailedFast ==
    /\ report.updateFailed /= <<>>
    /\ report.updateFailed[1].error.name = "Error"

\* C24: updateProduct and updateGamepass make no adapter call and send no
\* request for an entry that lacks the identifier they need; they throw, and
\* the entry and lastToken are as they were.
C24_FailsFast ==
    /\ \A i \in DOMAIN calls : ~IsNullish(IdOf(i))
    /\ (cursor = 1 /\ calls = <<>>) => FailedFast
    /\ FailedFast =>
          /\ calls = <<>>
          /\ pc = "idle" /\ wire = <<>> /\ settled = <<>>
          /\ config = previous.config
          /\ lastToken = previous.lastToken

C24_Witness ==
    /\ FailedFast
    /\ lastToken = ServedToken
    /\ IsNullish(RemoteId(config, report.updateFailed[1].product))
    /\ ~IsNullish(Deref(config, report.updateFailed[1].product).uploadedHash)

-----------------------------------------------------------------------------
(* Claims about a whole run, checked under Spec *)

\* a run that is neither a preview nor a hash run
ReconcileRun == ~cmdOptions.preview /\ ~cmdOptions.hash

\* the entry at ref, as written to the file, holds what the call gave it
Saved(i) ==
    LET written == Deref(file.contents, calls[i].ref) IN
    /\ written.uploadedHash = getHash(written)
    /\ calls[i].adapter = "devprodAdd" => written.productId = calls[i].result.value

\* C25: in a run of updateEntries, main goes past the report to the save once
\* updateEntries has returned; unless the write itself throws, the file holds
\* the catalogue as updateEntries left it, with the id and the hash of every
\* call that returned, whatever calls threw.
C25_ProgressIsSaved ==
    ReconcileRun =>
        /\ mpc \in {"report", "save", "done", "failed"} <=> Returned
        /\ mpc = "done" => file.written /\ file.contents = config
        /\ file.written =>
              \A i \in DOMAIN calls : calls[i].result.kind = "return" => Saved(i)

C25_Witness ==
    /\ ReconcileRun
    /\ mpc = "done"
    /\ \E i, j \in DOMAIN calls :
          /\ calls[i].adapter = "devprodAdd"
          /\ calls[i].result.kind = "return"
          /\ Deref(file.contents, calls[i].ref).productId = NewId
          /\ calls[j].result.kind = "throw"

\* C26: in updateEntries an adapter call is made only when every call before
\* it has returned or thrown, a request is awaited only for the latest call,
\* at most one request is sent and not yet settled, and an entry differs from
\* what it was only if a call for it has returned.
C26_OneRequestInFlight ==
    InUpdateEntries =>
        /\ OneAtATime
        /\ Len(wire) - Len(settled) = IF pc = "idle" THEN 0 ELSE 1
        /\ \A ref \in AllRefs : Deref(config, ref) /= Before(ref) =>
              \E i \in CallsFor(ref) : calls[i].result.kind = "return"

C26_Witness ==
    /\ InUpdateEntries
    /\ pc = "await2"
    /\ Len(calls) = 2
    /\ calls[1].result.kind = "return"
    /\ Deref(config, calls[1].ref) /= Before(calls[1].ref)
    /\ Deref(config, calls[2].ref) = Before(calls[2].ref)

\* checkEntries called again on the catalogue as it is, without updateAll
Reclassified(create, update) ==
    checkEntries(config, [create |-> create, update |-> update, updateAll |-> FALSE])

\* C27: when updateEntries has returned, checkEntries called on the catalogue
\* without options.updateAll records every entry of addSuccess and of
\* updateSuccess in toNotUpdate and not in outdated.
C27_SuccessIsUpToDate ==
    Returned => \A ref \in Held(report.addSuccess) \cup Held(report.updateSuccess) :
        \A create, update \in BOOLEAN :
            /\ ~In(Reclassified(create, update).outdated, ref)
            /\ In(Reclassified(create, update).toNotUpdate, ref)

\* C28: checkEntries puts every entry in exactly one of toAdd, toNotAdd,
\* toUpdate and toNotUpdate, an entry without a remote identifier in one of
\* the first two and an entry with one in one of the last two, and an entry
\* of outdated is in toUpdate or toNotUpdate; in updateEntries no entry has
\* both a devprodAdd call and an update call.
C28_BucketsPartition ==
    Checked => \A ref \in AllRefs :
        /\ Count(actions.toAdd, ref) + Count(actions.toNotAdd, ref)
           + Count(actions.toUpdate, ref) + Count(actions.toNotUpdate, ref) = 1
        /\ (In(actions.toAdd, ref) \/ In(actions.toNotAdd, ref)) => ~HadRemoteId(ref)
        /\ (In(actions.toUpdate, ref) \/ In(actions.toNotUpdate, ref)) => HadRemoteId(ref)
        /\ In(actions.outdated, ref) =>
              In(actions.toUpdate, ref) \/ In(actions.toNotUpdate, ref)
        /\ UpdateCallsFor(ref) = {} \/ UpdateCallsFor(ref) = CallsFor(ref)

C28_Witness ==
    /\ Returned
    /\ \E i, j \in DOMAIN calls :
          /\ calls[i].adapter = "devprodAdd"
          /\ calls[i].result.kind = "return"
          /\ calls[j].adapter /= "devprodAdd"
          /\ calls[j].result.kind = "return"
    /\ \E ref \in AllRefs : In(actions.outdated, ref) /\ In(actions.toUpdate, ref)

=============================================================================
